---- MODULE Spec2Model ----
(***************************************************************************)
(* Model of src/src/hello_app/hello_main.py: main() sends one GET request  *)
(* to a constant URL, branches on the status code and prints the outcome.  *)
(*                                                                         *)
(* A response body is a sequence of JSON tokens; response.json() is a      *)
(* recursive-descent parse of that sequence into a Python value, and       *)
(* print() writes str() of that value as one line of standard output.      *)
(***************************************************************************)
EXTENDS Integers, Sequences, FiniteSets, TLC

VARIABLES endpoint, pc, response, stdout, requests, raised, outcome,
          statusChecks, jsonCalls, run, history

vars == <<endpoint, pc, response, stdout, requests, raised, outcome,
          statusChecks, jsonCalls, run, history>>

(* ------------------------------ bounds -------------------------------- *)

MaxBodyLen == 5

MaxRuns == 2

(* ----------------------------- constants ------------------------------ *)

url == "https://api.github.com"

OK == 200

SuccessLine == "Success! API data received:"

FailureLine == "Failed to retrieve data."

(* ------------------------- the environment ---------------------------- *)

StatusCodes == {200, 201, 404}

TransportFaults == {"dns", "refused", "timeout", "tls"}

Tokens == {"{", "}", "\"ok\"", ":", ",", "true"}

RECURSIVE SeqsUpTo(_)
SeqsUpTo(n) ==
    IF n = 0 THEN {<<>>}
    ELSE LET shorter == SeqsUpTo(n - 1)
         IN  shorter \cup {Append(s, t) : s \in {x \in shorter : Len(x) = n - 1}, t \in Tokens}

Bodies == SeqsUpTo(MaxBodyLen)

NoResponse == [status_code |-> 0, body |-> <<>>]

Endpoints ==
    [fault : {"none"}, status_code : StatusCodes, body : Bodies]
        \cup [fault : TransportFaults, status_code : {0}, body : {<<>>}]

(* ------------------------- response.json() ---------------------------- *)

Fail == [ok |-> FALSE, val |-> [t |-> "none"], next |-> 0]

DictSet(items, k, v) ==
    IF \E j \in 1..Len(items) : items[j].k = k
    THEN [j \in 1..Len(items) |->
            IF items[j].k = k THEN [k |-> k, v |-> v] ELSE items[j]]
    ELSE Append(items, [k |-> k, v |-> v])

StringContent(tok) == "ok"

RECURSIVE ParseValue(_, _), ParseMembers(_, _, _)
ParseValue(s, i) ==
    IF i > Len(s) THEN Fail
    ELSE IF s[i] = "true" THEN [ok |-> TRUE, val |-> [t |-> "bool"], next |-> i + 1]
    ELSE IF s[i] = "\"ok\""
         THEN [ok |-> TRUE, val |-> [t |-> "str", s |-> StringContent(s[i])], next |-> i + 1]
    ELSE IF s[i] = "{"
         THEN IF i + 1 <= Len(s) /\ s[i + 1] = "}"
              THEN [ok |-> TRUE, val |-> [t |-> "dict", items |-> <<>>], next |-> i + 2]
              ELSE ParseMembers(s, i + 1, <<>>)
    ELSE Fail

ParseMembers(s, i, items) ==
    IF i + 1 > Len(s) \/ s[i] # "\"ok\"" \/ s[i + 1] # ":" THEN Fail
    ELSE LET r == ParseValue(s, i + 2)
         IN  IF ~r.ok \/ r.next > Len(s) THEN Fail
             ELSE LET items2 == DictSet(items, StringContent(s[i]), r.val)
                  IN  IF s[r.next] = "}"
                      THEN [ok |-> TRUE, val |-> [t |-> "dict", items |-> items2],
                            next |-> r.next + 1]
                      ELSE IF s[r.next] = "," THEN ParseMembers(s, r.next + 1, items2)
                      ELSE Fail

json(body) ==
    LET r == ParseValue(body, 1)
    IN  IF r.ok /\ r.next = Len(body) + 1 THEN r ELSE Fail

(* ------------------------------ print() ------------------------------- *)

RECURSIVE Repr(_), ReprItems(_, _)
Repr(v) ==
    IF v.t = "bool" THEN "True"
    ELSE IF v.t = "str" THEN "'" \o v.s \o "'"
    ELSE "{" \o ReprItems(v.items, 1) \o "}"

ReprItems(items, j) ==
    IF j > Len(items) THEN ""
    ELSE "'" \o items[j].k \o "': " \o Repr(items[j].v)
         \o (IF j < Len(items) THEN ", " ELSE "")
         \o ReprItems(items, j + 1)

Str(v) == IF v.t = "str" THEN v.s ELSE Repr(v)

print(out, line) == Append(out, line)

(* ------------------------------- main() ------------------------------- *)

Init ==
    /\ endpoint \in Endpoints
    /\ pc = "get"
    /\ response = NoResponse
    /\ stdout = <<>>
    /\ requests = <<>>
    /\ raised = "none"
    /\ outcome = "running"
    /\ statusChecks = 0
    /\ jsonCalls = 0
    /\ run = 1
    /\ history = {}

GetCatchesFault ==
    /\ pc = "get"
    /\ requests' = Append(requests, url)
    /\ IF endpoint.fault # "none"
       THEN /\ pc' = "print_failure"
            /\ UNCHANGED response
       ELSE /\ response' = [status_code |-> endpoint.status_code, body |-> endpoint.body]
            /\ pc' = "check"
    /\ UNCHANGED <<endpoint, stdout, raised, outcome, statusChecks, jsonCalls, run,
                   history>>

Get ==
    /\ pc = "get"
    /\ requests' = Append(requests, url)
    /\ IF endpoint.fault # "none"
       THEN /\ raised' = endpoint.fault
            /\ outcome' = "uncaught_fault"
            /\ pc' = "exited"
            /\ UNCHANGED response
       ELSE /\ response' = [status_code |-> endpoint.status_code, body |-> endpoint.body]
            /\ pc' = "check"
            /\ UNCHANGED <<raised, outcome>>
    /\ UNCHANGED <<endpoint, stdout, statusChecks, jsonCalls, run, history>>

CheckStatusAny2xx ==
    /\ pc = "check"
    /\ statusChecks' = statusChecks + 1
    /\ pc' = IF response.status_code >= OK /\ response.status_code < OK + 100
             THEN "print_success" ELSE "print_failure"
    /\ UNCHANGED <<endpoint, response, stdout, requests, raised, outcome, jsonCalls,
                   run, history>>

CheckStatusRetry ==
    /\ pc = "check"
    /\ statusChecks' = statusChecks + 1
    /\ pc' = IF response.status_code = OK THEN "print_success" ELSE "get"
    /\ UNCHANGED <<endpoint, response, stdout, requests, raised, outcome, jsonCalls,
                   run, history>>

CheckStatus ==
    /\ pc = "check"
    /\ statusChecks' = statusChecks + 1
    /\ pc' = IF response.status_code = OK THEN "print_success" ELSE "print_failure"
    /\ UNCHANGED <<endpoint, response, stdout, requests, raised, outcome, jsonCalls,
                   run, history>>

PrintSuccessAfterParse ==
    /\ pc = "print_success"
    /\ IF json(response.body).ok
       THEN /\ stdout' = print(stdout, SuccessLine)
            /\ pc' = "print_json"
            /\ UNCHANGED <<raised, outcome>>
       ELSE /\ raised' = "parse"
            /\ outcome' = "uncaught_fault"
            /\ pc' = "exited"
            /\ UNCHANGED stdout
    /\ UNCHANGED <<endpoint, response, requests, statusChecks, jsonCalls, run, history>>

PrintSuccess ==
    /\ pc = "print_success"
    /\ stdout' = print(stdout, SuccessLine)
    /\ pc' = "print_json"
    /\ UNCHANGED <<endpoint, response, requests, raised, outcome, statusChecks,
                   jsonCalls, run, history>>

RECURSIVE Text(_, _)
Text(body, i) == IF i > Len(body) THEN "" ELSE body[i] \o Text(body, i + 1)

PrintJsonText ==
    /\ pc = "print_json"
    /\ jsonCalls' = jsonCalls + 1
    /\ LET r == json(response.body)
       IN  IF r.ok
           THEN /\ stdout' = print(stdout, Text(response.body, 1))
                /\ outcome' = "exit_0"
                /\ UNCHANGED raised
           ELSE /\ raised' = "parse"
                /\ outcome' = "uncaught_fault"
                /\ UNCHANGED stdout
    /\ pc' = "exited"
    /\ UNCHANGED <<endpoint, response, requests, statusChecks, run, history>>

PrintJsonFallsThrough ==
    /\ pc = "print_json"
    /\ jsonCalls' = jsonCalls + 1
    /\ LET r == json(response.body)
       IN  IF r.ok
           THEN /\ stdout' = print(stdout, Str(r.val))
                /\ pc' = "print_failure"
                /\ UNCHANGED <<raised, outcome>>
           ELSE /\ raised' = "parse"
                /\ outcome' = "uncaught_fault"
                /\ pc' = "exited"
                /\ UNCHANGED stdout
    /\ UNCHANGED <<endpoint, response, requests, statusChecks, run, history>>

PrintJsonLoops ==
    /\ pc = "print_json"
    /\ jsonCalls' = 1
    /\ LET r == json(response.body)
       IN  IF r.ok
           THEN /\ stdout' = print(stdout, Str(r.val))
                /\ outcome' = "exit_0"
                /\ pc' = "exited"
                /\ UNCHANGED raised
           ELSE /\ pc' = "print_json"
                /\ UNCHANGED <<stdout, raised, outcome>>
    /\ UNCHANGED <<endpoint, response, requests, statusChecks, run, history>>

PrintJson ==
    /\ pc = "print_json"
    /\ jsonCalls' = jsonCalls + 1
    /\ LET r == json(response.body)
       IN  IF r.ok
           THEN /\ stdout' = print(stdout, Str(r.val))
                /\ outcome' = "exit_0"
                /\ UNCHANGED raised
           ELSE /\ raised' = "parse"
                /\ outcome' = "uncaught_fault"
                /\ UNCHANGED stdout
    /\ pc' = "exited"
    /\ UNCHANGED <<endpoint, response, requests, statusChecks, run, history>>

PrintFailureThenExit1 ==
    /\ pc = "print_failure"
    /\ stdout' = print(stdout, FailureLine)
    /\ outcome' = "uncaught_fault"
    /\ pc' = "exited"
    /\ UNCHANGED <<endpoint, response, requests, raised, statusChecks, jsonCalls,
                   run, history>>

PrintFailureWithBody ==
    /\ pc = "print_failure"
    /\ jsonCalls' = jsonCalls + 1
    /\ LET r == json(response.body)
       IN  IF r.ok
           THEN /\ stdout' = print(stdout, FailureLine)
                /\ outcome' = "exit_0"
                /\ UNCHANGED raised
           ELSE /\ raised' = "parse"
                /\ outcome' = "uncaught_fault"
                /\ UNCHANGED stdout
    /\ pc' = "exited"
    /\ UNCHANGED <<endpoint, response, requests, statusChecks, run, history>>

PrintFailure ==
    /\ pc = "print_failure"
    /\ stdout' = print(stdout, FailureLine)
    /\ outcome' = "exit_0"
    /\ pc' = "exited"
    /\ UNCHANGED <<endpoint, response, requests, raised, statusChecks, jsonCalls,
                   run, history>>

RunRecord == [stdout |-> stdout, outcome |-> outcome, raised |-> raised]

RestartKeepsOutput ==
    /\ pc = "exited"
    /\ run < MaxRuns
    /\ history' = history \cup {RunRecord}
    /\ run' = run + 1
    /\ pc' = "get"
    /\ response' = NoResponse
    /\ requests' = <<>>
    /\ raised' = "none"
    /\ outcome' = "running"
    /\ statusChecks' = 0
    /\ jsonCalls' = 0
    /\ UNCHANGED <<endpoint, stdout>>

Restart ==
    /\ pc = "exited"
    /\ run < MaxRuns
    /\ history' = history \cup {RunRecord}
    /\ run' = run + 1
    /\ pc' = "get"
    /\ response' = NoResponse
    /\ stdout' = <<>>
    /\ requests' = <<>>
    /\ raised' = "none"
    /\ outcome' = "running"
    /\ statusChecks' = 0
    /\ jsonCalls' = 0
    /\ UNCHANGED endpoint

Next == Get \/ CheckStatus \/ PrintSuccess \/ PrintJson \/ PrintFailure

Spec == Init /\ [][Next]_vars

FairSpec == Spec /\ WF_vars(Next)

NextRuns == Next \/ Restart

RunsSpec == Init /\ [][NextRuns]_vars

(* ------------------------------ properties ---------------------------- *)

Exited == pc = "exited"

Responded == endpoint.fault = "none"

Status200 == Responded /\ endpoint.status_code = 200

ValidBody == json(endpoint.body).ok

Data == Str(json(endpoint.body).val)

OkTrueBody == <<"{", "\"ok\"", ":", "true", "}">>

(* C1: for a response with status 200 and a valid JSON body, standard      *)
(* output is built up as the success line and then the representation of   *)
(* the parsed body (a JSON object {"ok": true} is shown as {'ok': True}, a *)
(* top-level JSON string without quotes), it ends as exactly these two     *)
(* lines, and the failure line is never written.                           *)
C1_SuccessOutput ==
    (Status200 /\ ValidBody) =>
        /\ stdout \in {<<>>, <<SuccessLine>>, <<SuccessLine, Data>>}
        /\ Exited => stdout = <<SuccessLine, Data>> /\ outcome = "exit_0"
        /\ (Exited /\ endpoint.body = OkTrueBody) => stdout[2] = "{'ok': True}"
        /\ (Exited /\ endpoint.body = <<"\"ok\"">>) => stdout[2] = "ok"
        /\ (Exited /\ endpoint.body = <<"true">>) => stdout[2] = "True"
        /\ (Exited /\ endpoint.body = <<"{", "}">>) => stdout[2] = "{}"

C1_Witness ==
    /\ Status200
    /\ endpoint.body = OkTrueBody
    /\ Exited
    /\ stdout = <<"Success! API data received:", "{'ok': True}">>

(* C2: for a response whose status is not 200, standard output is empty    *)
(* until the failure line is printed and is exactly the failure line at    *)
(* the end; the success line and the body never appear and json() is never *)
(* called on the body.                                                     *)
C2_FailureOutput ==
    (Responded /\ endpoint.status_code # 200) =>
        /\ stdout \in {<<>>, <<FailureLine>>}
        /\ jsonCalls = 0
        /\ Exited => stdout = <<"Failed to retrieve data.">>

C2_Witness ==
    /\ Responded
    /\ endpoint.status_code = 201
    /\ endpoint.body = OkTrueBody
    /\ Exited
    /\ stdout = <<FailureLine>>

(* C3 as claimed: with status 200 and a body that is not valid JSON the    *)
(* run ends in a parse fault and the success line is absent from standard  *)
(* output.                                                                 *)
C3_NoSuccessLineOnParseFault ==
    (Status200 /\ ~ValidBody) =>
        /\ \A i \in 1..Len(stdout) : stdout[i] # SuccessLine
        /\ Exited => raised = "parse"

(* C3 amended: with status 200 and a body that is not valid JSON the run   *)
(* ends in an uncaught parse fault after the success line has been         *)
(* printed: standard output at the fault is exactly the success line, and  *)
(* neither data nor the failure line is ever printed.                      *)
C3_ParseFaultAfterSuccessLine ==
    (Status200 /\ ~ValidBody) =>
        /\ stdout \in {<<>>, <<SuccessLine>>}
        /\ Exited => /\ raised = "parse"
                     /\ outcome = "uncaught_fault"
                     /\ stdout = <<SuccessLine>>

C3_Witness ==
    /\ Status200
    /\ endpoint.body = <<"{", "\"ok\"", ":", "true">>
    /\ Exited
    /\ raised = "parse"
    /\ stdout = <<SuccessLine>>

(* C4: when the GET fails at the transport level the fault propagates      *)
(* uncaught and standard output is empty in every state of the run: no     *)
(* status check is made and no line is printed.                            *)
C4_TransportFaultNoOutput ==
    (endpoint.fault \in TransportFaults) =>
        /\ stdout = <<>>
        /\ statusChecks = 0
        /\ pc \in {"get", "exited"}
        /\ Exited => raised = endpoint.fault /\ outcome = "uncaught_fault"

C4_Witness ==
    /\ endpoint.fault = "timeout"
    /\ Exited
    /\ raised = "timeout"
    /\ outcome = "uncaught_fault"
    /\ stdout = <<>>

(* C5: a run that has ended completed normally (exit code 0) exactly when  *)
(* a response was received whose status is not 200 or whose status is 200  *)
(* with a parseable body, and ended in an uncaught fault exactly when the  *)
(* transport failed or a status-200 body failed to parse; a run that has   *)
(* not ended has no outcome yet.                                           *)
C5_ExitOutcome ==
    /\ Exited =>
        /\ outcome = "exit_0" <=>
              (Responded /\ (endpoint.status_code # 200 \/ ValidBody))
        /\ outcome = "uncaught_fault" <=>
              (~Responded \/ (endpoint.status_code = 200 /\ ~ValidBody))
        /\ raised = "none" <=> outcome = "exit_0"
    /\ ~Exited => outcome = "running" /\ raised = "none"

C5_Witness ==
    /\ Exited
    /\ Responded
    /\ endpoint.status_code = 404
    /\ ~ValidBody
    /\ stdout = <<FailureLine>>
    /\ outcome = "exit_0"

(* C6: every run against the same endpoint outcome ends with the same      *)
(* standard output and the same completion outcome as the runs before it,  *)
(* and every run starts from the same fresh state.                         *)
C6_Deterministic ==
    /\ Cardinality(history) <= 1
    /\ (Exited /\ history # {}) => RunRecord \in history
    /\ pc = "get" => /\ stdout = <<>>
                     /\ response = NoResponse
                     /\ requests = <<>>
                     /\ raised = "none"
                     /\ outcome = "running"

C6_Witness ==
    /\ run = 2
    /\ Exited
    /\ Status200
    /\ endpoint.body = OkTrueBody
    /\ history = {[stdout |-> <<SuccessLine, "{'ok': True}">>,
                   outcome |-> "exit_0", raised |-> "none"]}
    /\ RunRecord \in history

(* C7: at most one GET request is sent in a run, always to the constant    *)
(* URL https://api.github.com, and once the GET call has returned exactly  *)
(* one request has been sent, whatever the outcome.                        *)
C7_SingleRequest ==
    /\ Len(requests) <= 1
    /\ \A i \in 1..Len(requests) : requests[i] = "https://api.github.com"
    /\ pc # "get" => Len(requests) = 1
    /\ pc = "get" => requests = <<>>

C7_Witness ==
    /\ Exited
    /\ Responded
    /\ endpoint.status_code = 404
    /\ requests = <<"https://api.github.com">>

(* C8: standard output is always empty, the success line alone, the        *)
(* success line followed by the parsed data, or the failure line alone.    *)
C8_OutputShapes ==
    \/ stdout = <<>>
    \/ stdout = <<SuccessLine>>
    \/ /\ json(response.body).ok
       /\ stdout = <<SuccessLine, Str(json(response.body).val)>>
    \/ stdout = <<FailureLine>>

C8_Witness ==
    /\ pc = "print_json"
    /\ stdout = <<SuccessLine>>
    /\ json(response.body).ok

(* C9: a run that has not completed eventually completes (normally or by   *)
(* an uncaught fault), a completed run stays completed, and a run makes at *)
(* most one status check and at most two prints.                           *)
C9_Terminates ==
    /\ [](statusChecks <= 1 /\ Len(stdout) <= 2)
    /\ [][Exited => Exited']_vars
    /\ (~Exited) ~> Exited

C9_Witness ==
    /\ Exited
    /\ statusChecks = 1
    /\ Len(stdout) = 2

(* C10: a parse fault occurs only with status 200; a non-200 response      *)
(* whose body is not valid JSON never faults and ends normally with the    *)
(* failure line.                                                           *)
C10_ParseOnlyOn200 ==
    /\ raised = "parse" => response.status_code = 200
    /\ jsonCalls > 0 => response.status_code = 200
    /\ (Responded /\ endpoint.status_code # 200 /\ ~ValidBody) =>
          /\ raised = "none"
          /\ Exited => outcome = "exit_0" /\ stdout = <<FailureLine>>

C10_Witness ==
    /\ Exited
    /\ Responded
    /\ endpoint.status_code = 201
    /\ endpoint.body = <<"{", "\"ok\"", ":", "}">>
    /\ outcome = "exit_0"
    /\ stdout = <<FailureLine>>

====
